---- MODULE Spec2Model ----
(***************************************************************************)
(* Model of backend/wearables/main.py, the bootstrap of the                *)
(* "wearables-gateway" Flask service: environment load, best-effort        *)
(* Sentry initialisation, application construction, CORS attachment, the   *)
(* root route, the v2 router mount, app.run, and request dispatch over the *)
(* resulting route table.                                                  *)
(***************************************************************************)
EXTENDS Integers, Sequences, FiniteSets, TLC

VARIABLES
    procEnv,       \* the process environment the interpreter was started with
    dotenvFile,    \* the key/value pairs of the local .env file (all unset: no file)
    isMain,        \* __name__ == '__main__'
    environ,       \* os.environ
    pc,            \* the statement of main.py about to run, or serving/end/aborted
    steps,         \* the statements executed so far, in the order they ran
    error,         \* the exception that escaped to the top level, "none" if none
    sentry,        \* the process-wide state of sentry_sdk
    app,           \* the Flask application object
    routes,        \* app.url_map: the set of registered rules
    mounted,       \* the version routers whose init_app has been called
    listener,      \* whether app.run has been entered
    runArgs,       \* the arguments app.run was called with
    served,        \* the number of requests dispatched
    lastRequest,   \* the last request dispatched
    lastResponse   \* the response to it

vars == <<procEnv, dotenvFile, isMain, environ, pc, steps, error, sentry, app,
          routes, mounted, listener, runArgs, served, lastRequest, lastResponse>>

-----------------------------------------------------------------------------
(* Bounds of the model *)

\* the longest APP_PORT string enumerated
MaxPortLen == 2

\* the number of requests dispatched in one run
MaxRequests == 2

-----------------------------------------------------------------------------
(* Environment values *)

\* the characters APP_PORT strings are built from: digits, sign, blank, underscore
PortChars == {"1", "8", "-", " ", "_"}

RECURSIVE StringsUpTo(_)
StringsUpTo(n) ==
    IF n = 0 THEN {<<>>}
    ELSE LET shorter == StringsUpTo(n - 1)
         IN  shorter \cup {Append(s, c) : s \in {t \in shorter : Len(t) = n - 1}, c \in PortChars}

\* an environment variable is unset, or set to a string
UnsetStr == [set |-> FALSE, val |-> ""]
UnsetSeq == [set |-> FALSE, val |-> <<>>]
SetTo(v) == [set |-> TRUE, val |-> v]

DsnValues   == {UnsetStr, SetTo("https://key@o1.ingest.sentry.io/1"), SetTo("not-a-dsn")}
HostValues  == {UnsetStr, SetTo(""), SetTo("127.0.0.1")}
PortValues  == {UnsetSeq} \cup {SetTo(s) : s \in StringsUpTo(MaxPortLen)}
DebugValues == {UnsetStr, SetTo(""), SetTo("false"), SetTo("1")}

\* the DSN strings sentry_sdk.init rejects (BadDsn)
MalformedDsns == {"not-a-dsn"}

NoEnv == [SENTRY_DSN |-> UnsetStr, APP_HOST |-> UnsetStr,
          APP_PORT |-> UnsetSeq, APP_DEBUG |-> UnsetStr]

ProcessEnvs == [SENTRY_DSN : DsnValues, APP_HOST : HostValues,
                APP_PORT : PortValues, APP_DEBUG : DebugValues]

\* the .env files enumerated: none, and one that sets every key
DotenvFiles == {NoEnv,
                [SENTRY_DSN |-> SetTo("not-a-dsn"), APP_HOST |-> SetTo("127.0.0.1"),
                 APP_PORT |-> SetTo(<<"8">>), APP_DEBUG |-> SetTo("false")]}

\* load_dotenv(): file values enter os.environ, existing variables are kept
KeepExisting(old, new) == IF old.set THEN old ELSE new

load_dotenv(env, file) ==
    [SENTRY_DSN |-> KeepExisting(env.SENTRY_DSN, file.SENTRY_DSN),
     APP_HOST   |-> KeepExisting(env.APP_HOST, file.APP_HOST),
     APP_PORT   |-> KeepExisting(env.APP_PORT, file.APP_PORT),
     APP_DEBUG  |-> KeepExisting(env.APP_DEBUG, file.APP_DEBUG)]

-----------------------------------------------------------------------------
(* Python's built-in conversions, as main.py applies them *)

\* a Python value handed to int() or bool(): a str, an int or a bool
PyStr(s)  == [type |-> "str", s |-> s]
PyIntObj(i) == [type |-> "int", i |-> i]
PyBoolObj(b) == [type |-> "bool", b |-> b]

\* os.environ.get(key, default)
os_environ_get(var, default) == IF var.set THEN PyStr(var.val) ELSE default

DigitChars == <<"0", "1", "2", "3", "4", "5", "6", "7", "8", "9">>
IsDigit(c) == \E d \in 1..10 : DigitChars[d] = c
DigitValue(c) == (CHOOSE d \in 1..10 : DigitChars[d] = c) - 1

RECURSIVE LStrip(_)
LStrip(s) == IF s # <<>> /\ Head(s) = " " THEN LStrip(Tail(s)) ELSE s

RECURSIVE RStrip(_)
RStrip(s) == IF s # <<>> /\ s[Len(s)] = " " THEN RStrip(SubSeq(s, 1, Len(s) - 1)) ELSE s

\* the digit part of an int literal: digits, single underscores only between digits
RECURSIVE DigitsOk(_, _)
DigitsOk(s, prevDigit) ==
    IF s = <<>> THEN prevDigit
    ELSE IF IsDigit(Head(s)) THEN DigitsOk(Tail(s), TRUE)
    ELSE IF Head(s) = "_" THEN prevDigit /\ DigitsOk(Tail(s), FALSE)
    ELSE FALSE

RECURSIVE DigitsValue(_, _)
DigitsValue(s, acc) ==
    IF s = <<>> THEN acc
    ELSE IF Head(s) = "_" THEN DigitsValue(Tail(s), acc)
    ELSE DigitsValue(Tail(s), 10 * acc + DigitValue(Head(s)))

\* int(x): [ok |-> FALSE] stands for ValueError
PyInt(x) ==
    IF x.type = "int" THEN [ok |-> TRUE, val |-> x.i]
    ELSE LET t      == RStrip(LStrip(x.s))
             signed == t # <<>> /\ Head(t) \in {"+", "-"}
             digits == IF signed THEN Tail(t) ELSE t
             sign   == IF signed /\ Head(t) = "-" THEN -1 ELSE 1
         IN  IF DigitsOk(digits, FALSE)
             THEN [ok |-> TRUE, val |-> sign * DigitsValue(digits, 0)]
             ELSE [ok |-> FALSE, val |-> 0]

\* bool(x): a str is true exactly when it is not empty
PyBool(x) == IF x.type = "bool" THEN x.b ELSE x.s # ""

DefaultHost == "0.0.0.0"
DefaultPort == 6644

\* a port argument that ignores APP_PORT
PortArgDefaultOnly(env) == [ok |-> TRUE, val |-> DefaultPort]

\* a port argument that falls back to the default when int() fails
PortArgWithFallback(env) ==
    LET p == PyInt(os_environ_get(env.APP_PORT, PyIntObj(DefaultPort)))
    IN  IF p.ok THEN p ELSE [ok |-> TRUE, val |-> DefaultPort]

\* the keyword arguments of app.run
HostArg(env)  == os_environ_get(env.APP_HOST, PyStr(DefaultHost)).s
PortArg(env)  == PyInt(os_environ_get(env.APP_PORT, PyIntObj(DefaultPort)))
DebugArg(env) == PyBool(os_environ_get(env.APP_DEBUG, PyBoolObj(FALSE)))

-----------------------------------------------------------------------------
(* The statements of main.py, in program order *)

\* an order that enters app.run before the version router is mounted
ProgramOrderListenFirst ==
    <<"load_env", "telemetry", "create_app", "cors", "route_root", "listen", "mount_v2">>

ProgramOrder ==
    <<"load_env", "telemetry", "create_app", "cors", "route_root", "mount_v2", "listen">>

\* the statement that follows stmt, "end" after the last one
NextStmt(stmt) ==
    LET i == CHOOSE k \in 1..Len(ProgramOrder) : ProgramOrder[k] = stmt
    IN  IF i = Len(ProgramOrder) THEN "end" ELSE ProgramOrder[i + 1]

-----------------------------------------------------------------------------
(* Telemetry: the try/except around sentry_sdk.init *)

SentryOff == [state |-> "uninitialised", attempts |-> 0, calls |-> 0, dsn |-> "", rate |-> "none"]

\* a lookup with os.environ.get: no KeyError, an absent DSN is passed on as empty
SentryDsnGet(env) ==
    IF env.SENTRY_DSN.set THEN [raised |-> FALSE, val |-> env.SENTRY_DSN.val]
    ELSE [raised |-> FALSE, val |-> ""]

\* os.environ['SENTRY_DSN']: KeyError when the variable is unset
SentryDsnLookup(env) ==
    IF env.SENTRY_DSN.set THEN [raised |-> FALSE, val |-> env.SENTRY_DSN.val]
    ELSE [raised |-> TRUE, val |-> ""]

\* the outcomes of sentry_sdk.init(dsn=..., traces_sample_rate=1.0): a malformed
\* DSN raises; any other call may succeed or raise (an integration that fails to set up)
SentryInitRaises(dsn) == IF dsn \in MalformedDsns THEN {TRUE} ELSE {TRUE, FALSE}

\* a handler that lets the exception through
ExceptReraise(raised) ==
    IF raised THEN [pc |-> "aborted", error |-> "TelemetryError"]
    ELSE [pc |-> "create_app", error |-> "none"]

\* "except: pass": whatever the try block raised, the next statement runs
ExceptPass(raised) == [pc |-> NextStmt("telemetry"), error |-> "none"]

-----------------------------------------------------------------------------
(* The application object, its route table and the version routers *)

NoApp == [created |-> FALSE, cors |-> FALSE]

\* Flask(__name__)
Flask == [created |-> TRUE, cors |-> FALSE]

\* an application left without the hook
CORSNotAttached(a) == a

\* CORS(app): an after-request hook on the application, default options
CORS(a) == [a EXCEPT !.cors = TRUE]

\* paths are sequences of segments: <<>> is "/", <<"api", "v2">> is "/api/v2/"
RootRule == [path |-> <<>>, method |-> "GET", handler |-> "root", owner |-> "main"]

\* a registration that rebuilds the table from the new rule
AddUrlRuleReplacing(table, rule) == {rule}

\* @app.route(...): the rule is added to the table
AddUrlRule(table, rule) == table \cup {rule}

RECURSIVE AddUrlRules(_, _)
AddUrlRules(table, rules) ==
    IF rules = <<>> THEN table
    ELSE AddUrlRules(AddUrlRule(table, Head(rules)), Tail(rules))

\* the rules a version router's init_app registers, in registration order
RouterRules(version) ==
    <<[path |-> <<"api", version>>, method |-> "GET",
       handler |-> "index", owner |-> version],
      [path |-> <<"api", version, "data">>, method |-> "POST",
       handler |-> "data", owner |-> version]>>

\* the v1 mount left enabled
ActiveRoutersWithV1 == <<"v1", "v2">>

\* the routers main.py mounts: v2; the v1 import and mount are commented out
ActiveRouters == <<"v2">>

\* def root(): the payload and the status
RootPayload == [service |-> "wearables-gateway", version |-> "v2", endpoints |-> <<"/api/v2/">>]

\* a handler that still announces the deprecated version
root_v1 ==
    [status |-> 200,
     body |-> [service |-> "wearables-gateway", version |-> "v1", endpoints |-> <<"/api/v1/">>]]

root == [status |-> 200, body |-> RootPayload]

-----------------------------------------------------------------------------
(* Request dispatch *)

NoRequest == [path |-> <<>>, method |-> "none"]

NoResponse == [status |-> 0, handler |-> "none", owner |-> "none",
               body |-> [none |-> TRUE], headers |-> {}]

Requests ==
    {[path |-> <<>>, method |-> "GET"],
     [path |-> <<>>, method |-> "POST"],
     [path |-> <<"api", "v1">>, method |-> "GET"],
     [path |-> <<"api", "v1", "data">>, method |-> "POST"],
     [path |-> <<"api", "v2">>, method |-> "GET"],
     [path |-> <<"api", "v2", "data">>, method |-> "POST"],
     [path |-> <<"api", "v3">>, method |-> "GET"]}

\* the statuses a version router's handler may answer with
RouterStatuses == {200, 500}

\* the headers the after-request hooks add to a response
AfterRequest(a) == IF a.cors THEN {"Access-Control-Allow-Origin"} ELSE {}

\* the responses the application may give to req over the route table
Dispatch(a, table, req) ==
    LET onPath == {r \in table : r.path = req.path}
        match  == {r \in onPath : r.method = req.method}
    IN  IF match # {}
        THEN LET r == CHOOSE m \in match : TRUE
             IN  IF r.owner = "main"
                 THEN {[status |-> root.status, handler |-> r.handler, owner |-> r.owner,
                        body |-> root.body, headers |-> AfterRequest(a)]}
                 ELSE {[status |-> st, handler |-> r.handler, owner |-> r.owner,
                        body |-> [delegated |-> TRUE], headers |-> AfterRequest(a)]
                       : st \in RouterStatuses}
        ELSE IF onPath # {}
        THEN {[status |-> 405, handler |-> "none", owner |-> "none",
               body |-> [error |-> "Method Not Allowed"], headers |-> AfterRequest(a)]}
        ELSE {[status |-> 404, handler |-> "none", owner |-> "none",
               body |-> [error |-> "Not Found"], headers |-> AfterRequest(a)]}

NoArgs == [host |-> "", port |-> 0, debug |-> FALSE]

-----------------------------------------------------------------------------
(* The state machine *)

Init ==
    /\ procEnv \in ProcessEnvs
    /\ dotenvFile \in DotenvFiles
    /\ isMain \in BOOLEAN
    /\ environ = procEnv
    /\ pc = "load_env"
    /\ steps = <<>>
    /\ error = "none"
    /\ sentry = SentryOff
    /\ app = NoApp
    /\ routes = {}
    /\ mounted = <<>>
    /\ listener = "not_started"
    /\ runArgs = NoArgs
    /\ served = 0
    /\ lastRequest = NoRequest
    /\ lastResponse = NoResponse

\* line 6: load_dotenv()
LoadEnv ==
    /\ pc = "load_env"
    /\ environ' = load_dotenv(environ, dotenvFile)
    /\ pc' = NextStmt("load_env")
    /\ steps' = Append(steps, "load_env")
    /\ UNCHANGED <<procEnv, dotenvFile, isMain, error, sentry, app, routes, mounted,
                   listener, runArgs, served, lastRequest, lastResponse>>

\* lines 8-13: try: sentry_sdk.init(dsn=os.environ['SENTRY_DSN'], traces_sample_rate=1.0)
\*             except: pass
InitTelemetry ==
    /\ pc = "telemetry"
    /\ LET dsn == SentryDsnLookup(environ)
       IN  \E initRaises \in (IF dsn.raised THEN {TRUE} ELSE SentryInitRaises(dsn.val)) :
             LET raised == dsn.raised \/ initRaises
                 after  == ExceptPass(raised)
             IN  /\ sentry' = [state    |-> IF raised THEN sentry.state ELSE "initialised",
                               attempts |-> sentry.attempts + 1,
                               calls    |-> IF dsn.raised THEN sentry.calls ELSE sentry.calls + 1,
                               dsn      |-> IF raised THEN sentry.dsn ELSE dsn.val,
                               rate     |-> IF raised THEN sentry.rate ELSE "1.0"]
                 /\ pc' = after.pc
                 /\ error' = after.error
    /\ steps' = Append(steps, "telemetry")
    /\ UNCHANGED <<procEnv, dotenvFile, isMain, environ, app, routes, mounted,
                   listener, runArgs, served, lastRequest, lastResponse>>

\* line 15: app = Flask(__name__)
CreateApp ==
    /\ pc = "create_app"
    /\ app' = Flask
    /\ pc' = NextStmt("create_app")
    /\ steps' = Append(steps, "create_app")
    /\ UNCHANGED <<procEnv, dotenvFile, isMain, environ, error, sentry, routes, mounted,
                   listener, runArgs, served, lastRequest, lastResponse>>

\* line 16: CORS(app)
AttachCORS ==
    /\ pc = "cors"
    /\ app' = CORS(app)
    /\ pc' = NextStmt("cors")
    /\ steps' = Append(steps, "cors")
    /\ UNCHANGED <<procEnv, dotenvFile, isMain, environ, error, sentry, routes, mounted,
                   listener, runArgs, served, lastRequest, lastResponse>>

\* lines 19-21: @app.route('/') def root()
RegisterRoot ==
    /\ pc = "route_root"
    /\ routes' = AddUrlRule(routes, RootRule)
    /\ pc' = NextStmt("route_root")
    /\ steps' = Append(steps, "route_root")
    /\ UNCHANGED <<procEnv, dotenvFile, isMain, environ, error, sentry, app, mounted,
                   listener, runArgs, served, lastRequest, lastResponse>>

\* lines 23-28: from apiVersions.v2 import init_app as init_v2; init_v2(app)
\* The import may raise, and init_app may raise after registering some of its rules;
\* neither is caught.
MountRouters ==
    /\ pc = "mount_v2"
    /\ LET n       == Len(ActiveRouters)
           last    == ActiveRouters[n]
           earlier == SubSeq(ActiveRouters, 1, n - 1)
           before  == IF n = 1 THEN routes
                      ELSE AddUrlRules(routes, RouterRules(earlier[1]))
           rules   == RouterRules(last)
       IN  \/ /\ routes' = AddUrlRules(before, rules)
              /\ mounted' = ActiveRouters
              /\ pc' = NextStmt("mount_v2")
              /\ error' = error
           \/ /\ routes' = before
              /\ mounted' = earlier
              /\ pc' = "aborted"
              /\ error' = "ImportError"
           \/ \E k \in 0..(Len(rules) - 1) :
                /\ routes' = AddUrlRules(before, SubSeq(rules, 1, k))
                /\ mounted' = ActiveRouters
                /\ pc' = "aborted"
                /\ error' = "RouterError"
    /\ steps' = Append(steps, "mount_v2")
    /\ UNCHANGED <<procEnv, dotenvFile, isMain, environ, sentry, app,
                   listener, runArgs, served, lastRequest, lastResponse>>

\* lines 30-31: if __name__ == '__main__': app.run(host=..., port=int(...), debug=bool(...))
\* int() raises ValueError before app.run is entered; app.run does not return.
StartListener ==
    /\ pc = "listen"
    /\ IF isMain
       THEN LET host  == HostArg(environ)
                port  == PortArg(environ)
                debug == DebugArg(environ)
            IN  IF port.ok
                THEN /\ runArgs' = [host |-> host, port |-> port.val, debug |-> debug]
                     /\ listener' = "serving"
                     /\ pc' = "serving"
                     /\ error' = error
                ELSE /\ pc' = "aborted"
                     /\ error' = "ValueError"
                     /\ UNCHANGED <<runArgs, listener>>
       ELSE /\ pc' = NextStmt("listen")
            /\ UNCHANGED <<runArgs, listener, error>>
    /\ steps' = Append(steps, "listen")
    /\ UNCHANGED <<procEnv, dotenvFile, isMain, environ, sentry, app, routes, mounted,
                   served, lastRequest, lastResponse>>

\* a request reaches the application: through app.run's server, or, when main.py was
\* imported, through the WSGI host that imported it
HandleRequest ==
    /\ pc \in {"serving", "end"}
    /\ served < MaxRequests
    /\ \E req \in Requests :
         \E resp \in Dispatch(app, routes, req) :
           /\ lastRequest' = req
           /\ lastResponse' = resp
    /\ served' = served + 1
    /\ UNCHANGED <<procEnv, dotenvFile, isMain, environ, pc, steps, error, sentry, app,
                   routes, mounted, listener, runArgs>>

\* the statements of the module, which the interpreter runs one after the other
Startup ==
    \/ LoadEnv
    \/ InitTelemetry
    \/ CreateApp
    \/ AttachCORS
    \/ RegisterRoot
    \/ MountRouters
    \/ StartListener

Next ==
    \/ Startup
    \/ HandleRequest

Spec == Init /\ [][Next]_vars

\* startup alone: the interpreter does not pause between the statements of a module
StartupSpec == Init /\ [][Startup]_vars /\ WF_vars(Startup)

-----------------------------------------------------------------------------
(* Vocabulary of the properties *)

\* the startup sequence as the specification gives it
DocumentedOrder ==
    <<"load_env", "telemetry", "create_app", "cors", "route_root", "mount_v2", "listen">>

IsPrefix(s, t) == Len(s) <= Len(t) /\ s = SubSeq(t, 1, Len(s))

Ran(stmt) == \E i \in 1..Len(steps) : steps[i] = stmt

\* a request has been dispatched
Answered == served > 0

GetRoot == [path |-> <<>>, method |-> "GET"]

\* the path lies under /api/<version>/
Under(path, version) == Len(path) >= 2 /\ path[1] = "api" /\ path[2] = version

\* the decimal numeral of n >= 0
RECURSIVE Decimal(_)
Decimal(n) ==
    IF n < 10 THEN <<DigitChars[n + 1]>>
    ELSE Append(Decimal(n \div 10), DigitChars[(n % 10) + 1])

\* s is a decimal numeral: digits only, no leading zero
IsNumeral(s) ==
    /\ s # <<>>
    /\ \A k \in 1..Len(s) : IsDigit(s[k])
    /\ Len(s) > 1 => s[1] # "0"

\* s is an integer literal: blanks, an optional sign, digits separated by single
\* underscores, blanks
IsIntLiteral(s) ==
    \E i \in 0..Len(s) : \E j \in i..Len(s) :
        /\ \A k \in 1..i : s[k] = " "
        /\ \A k \in (j + 1)..Len(s) : s[k] = " "
        /\ LET m == SubSeq(s, i + 1, j)
               d == IF m # <<>> /\ m[1] \in {"+", "-"} THEN Tail(m) ELSE m
           IN  /\ d # <<>>
               /\ IsDigit(d[1])
               /\ IsDigit(d[Len(d)])
               /\ \A k \in 1..Len(d) : IsDigit(d[k]) \/ d[k] = "_"
               /\ \A k \in 1..(Len(d) - 1) : ~(d[k] = "_" /\ d[k + 1] = "_")

\* the values of APP_DEBUG an operator writes to switch the flag off
FalsyDebugValues == {"", "0", "false"}

-----------------------------------------------------------------------------
(* Properties *)

\* C1: whatever SENTRY_DSN is, the telemetry statement hands control to the
\* construction of the application with no error pending; startup is only ever
\* aborted by the router mount or by app.run's arguments, never by telemetry; and
\* from the telemetry statement startup goes on to the Listener (or to the end of
\* the module when it is imported) with the application built and the root route
\* registered, unless the router mount or int(APP_PORT) raises.
C1_TelemetryNeverStopsStartup ==
    /\ [][/\ pc = "telemetry" => (pc' = "create_app" /\ error' = "none")
          /\ pc' = "aborted" => pc \in {"mount_v2", "listen", "aborted"}]_vars
    /\ []((listener = "serving" \/ pc = "end") => (app.created /\ RootRule \in routes))
    /\ (pc = "telemetry") ~>
          \/ listener = "serving"
          \/ pc = "end"
          \/ error \in {"ImportError", "RouterError", "ValueError"}

\* C1 witness: initialisation raised on a malformed DSN and the Listener is serving
\* the root route.
C1_Witness ==
    /\ environ.SENTRY_DSN.set
    /\ environ.SENTRY_DSN.val \in MalformedDsns
    /\ sentry.state = "uninitialised"
    /\ sentry.calls = 1
    /\ app.created
    /\ RootRule \in routes
    /\ listener = "serving"

\* C2: every dispatch of GET / answers 200 with the payload service
\* 'wearables-gateway', version 'v2', endpoints <<'/api/v2/'>>, and leaves the route
\* table, the configuration, the application and the telemetry state as they were.
C2_RootAlwaysSamePayload ==
    [][(served' = served + 1 /\ lastRequest' = GetRoot) =>
          /\ lastResponse'.status = 200
          /\ lastResponse'.handler = "root"
          /\ lastResponse'.body = [service |-> "wearables-gateway", version |-> "v2",
                                   endpoints |-> <<"/api/v2/">>]
          /\ UNCHANGED <<routes, environ, app, sentry, mounted, listener, runArgs, pc>>]_vars

\* C2 witness: GET / answered a second time, with debug on and a configured port.
C2_Witness ==
    /\ served = 2
    /\ lastRequest = GetRoot
    /\ lastResponse.status = 200
    /\ environ.APP_DEBUG.set
    /\ environ.APP_PORT.set
    /\ listener = "serving"

\* C3: when APP_DEBUG is unset or set to a falsy value ("", "0", "false"), app.run is
\* called with debug false.
C3_DebugOffWhenFalsy ==
    (listener = "serving" /\ (~environ.APP_DEBUG.set \/ environ.APP_DEBUG.val \in FalsyDebugValues))
        => runArgs.debug = FALSE

C5_OnlyV2Mounted ==
    /\ \A r \in routes : r.owner # "v1"
    /\ \A i \in 1..Len(mounted) : mounted[i] = "v2"
    /\ Len(mounted) <= 1
    /\ (Answered /\ Under(lastRequest.path, "v1")) => lastResponse.status = 404
    /\ Answered =>
         \A r \in routes :
            (r.owner = "v2" /\ r.path = lastRequest.path /\ r.method = lastRequest.method)
               => (lastResponse.owner = "v2" /\ lastResponse.handler = r.handler)

\* C5 witness: with v2 mounted, a request for /api/v1/data was answered 404.
C5_Witness ==
    /\ Answered
    /\ mounted = <<"v2">>
    /\ lastRequest = [path |-> <<"api", "v1", "data">>, method |-> "POST"]
    /\ lastResponse.status = 404
    /\ \E r \in routes : r.owner = "v2"

\* C6: CORS is attached before the first rule is registered, and every response,
\* from the root route, from a router's route or an error response, carries
\* Access-Control-Allow-Origin.
C6_EveryResponseHasCorsHeader ==
    /\ routes # {} => app.cors
    /\ Answered => "Access-Control-Allow-Origin" \in lastResponse.headers

\* C6 witness: a not-found response was given, with the header.
C6_Witness ==
    /\ Answered
    /\ lastResponse.status = 404
    /\ "Access-Control-Allow-Origin" \in lastResponse.headers

\* C7: the statements run at most once each and in the documented order, the
\* statement about to run is the one after the last that ran, and once the Listener
\* serves every statement has run exactly once with the v2 router mounted.
C7_StartupOrder ==
    /\ IsPrefix(steps, DocumentedOrder)
    /\ pc \notin {"serving", "end", "aborted"} => pc = DocumentedOrder[Len(steps) + 1]
    /\ pc \in {"serving", "end"} => steps = DocumentedOrder
    /\ listener = "serving" => (mounted = <<"v2">> /\ app.cors /\ RootRule \in routes)

\* C7 witness: the Listener serves after all seven statements.
C7_Witness ==
    /\ listener = "serving"
    /\ Len(steps) = 7
    /\ Answered

\* C8: no step removes or replaces a rule of the route table, the table holds one
\* rule per (path, method), and once startup is over (the Listener serves, or the
\* module has been imported) no step changes the table.
C8_RouteTableAppendOnly ==
    [][/\ routes \subseteq routes'
       /\ \A r1 \in routes' : \A r2 \in routes' :
             (r1.path = r2.path /\ r1.method = r2.method) => r1 = r2
       /\ pc \in {"serving", "end"} => routes' = routes]_vars

\* C8 witness: requests were dispatched over the full table of three rules.
C8_Witness ==
    /\ served = MaxRequests
    /\ Cardinality(routes) = 3
    /\ pc = "serving"

\* C9: the try block runs at most once and sentry_sdk.init is called at most once;
\* without SENTRY_DSN the reporter stays uninitialised and init is never called; the
\* reporter is initialised only if SENTRY_DSN is set and the one call, with that DSN
\* and sample rate 1.0, succeeded; no telemetry error ever reaches the top level.
C9_TelemetryAtMostOnce ==
    /\ sentry.attempts <= 1
    /\ sentry.calls <= 1
    /\ Ran("telemetry") => sentry.attempts = 1
    /\ ~environ.SENTRY_DSN.set => (sentry.state = "uninitialised" /\ sentry.calls = 0)
    /\ sentry.state = "initialised" =>
          /\ environ.SENTRY_DSN.set
          /\ sentry.calls = 1
          /\ sentry.dsn = environ.SENTRY_DSN.val
          /\ sentry.rate = "1.0"
    /\ error \in {"none", "ImportError", "RouterError", "ValueError"}

\* C9 witness: SENTRY_DSN is absent, the attempt was made, and requests are served
\* with the reporter uninitialised.
C9_Witness ==
    /\ ~environ.SENTRY_DSN.set
    /\ sentry.attempts = 1
    /\ sentry.state = "uninitialised"
    /\ Answered

\* C10: an error of the router mount or of int(APP_PORT) aborts startup: the
\* Listener never serves after one, no request is dispatched, startup only completes
\* with every rule of the v2 router registered, and app.run is only entered with
\* APP_PORT unset or an integer literal.
C10_OtherFailuresAbort ==
    /\ error # "none" => (pc = "aborted" /\ listener = "not_started" /\ served = 0)
    /\ pc = "aborted" => (error # "none" /\ listener = "not_started" /\ served = 0)
    /\ pc \in {"serving", "end"} =>
          \A i \in 1..Len(RouterRules("v2")) : RouterRules("v2")[i] \in routes
    /\ listener = "serving" => (~environ.APP_PORT.set \/ IsIntLiteral(environ.APP_PORT.val))
    /\ (isMain /\ Ran("listen") /\ environ.APP_PORT.set /\ ~IsIntLiteral(environ.APP_PORT.val))
          => (pc = "aborted" /\ error = "ValueError")

\* C10 witness: APP_PORT is "1_", the router was mounted, and startup was aborted
\* by ValueError.
C10_Witness ==
    /\ pc = "aborted"
    /\ error = "ValueError"
    /\ environ.APP_PORT.set
    /\ environ.APP_PORT.val = <<"1", "_">>
    /\ mounted = <<"v2">>
    /\ listener = "not_started"

====
